---- MODULE Spec2Model ----
(***************************************************************************)
(* Box packing engine of shotput/BoxPackingAPI.                            *)
(*                                                                         *)
(* Dimension triples are sequences <<shortest, middle, longest>>; Python's *)
(* 0-based index i is position i + 1 here, and a negative Python index     *)
(* wraps around the triple.  An item (SkuTuple / ItemTuple) is the record  *)
(* [sku_number, dimensions, weight].                                       *)
(***************************************************************************)
EXTENDS Integers, Sequences, FiniteSets, TLC

(***************************************************************************)
(* Geometric primitives (packing_algorithm.py)                             *)
(***************************************************************************)

Min2(a, b) == IF a <= b THEN a ELSE b
Max2(a, b) == IF a >= b THEN a ELSE b

\* sorted([x, y, z]) of three numbers, ascending
Sort3(d) ==
    LET lo == Min2(d[1], Min2(d[2], d[3]))
        hi == Max2(d[1], Max2(d[2], d[3]))
    IN  <<lo, d[1] + d[2] + d[3] - lo - hi, hi>>

\* a Python list index (possibly negative) into a triple, as a position 1..3
Idx(i) == ((i + 3) % 3) + 1

\* the middle dimension is not compared
does_it_fit_two_sides(sku_dims, box_dims) ==
    \A i \in {1, 3} : box_dims[i] >= sku_dims[i]

does_it_fit(sku_dims, box_dims) ==
    \A i \in 1..3 : box_dims[i] >= sku_dims[i]

something_fits(skus, box_dims) ==
    \E k \in 1..Len(skus) : does_it_fit(skus[k].dimensions, box_dims)

volume(dimensions) == dimensions[1] * dimensions[2] * dimensions[3]

\* <<side_2, side_3>> as Python indexes (negative ones wrap)
get_side_2_side_3(sku_dims, box_dims, side_1) ==
    IF sku_dims[2] > box_dims[Idx(side_1 - 1)]
    THEN <<side_1 - 2, side_1 - 1>>
    ELSE IF sku_dims[2] > box_dims[Idx(side_1 - 2)]
         THEN <<side_1 - 1, side_1 - 2>>
         ELSE <<(side_1 + 1) % 3, (side_1 + 2) % 3>>

\* sorted(blocks, key=volume): stable insertion sort, ascending volume
RECURSIVE SortByVolume(_)
SortByVolume(blocks) ==
    IF Len(blocks) <= 1 THEN blocks
    ELSE LET n    == Len(blocks)
             rest == SortByVolume(SubSeq(blocks, 1, n - 1))
             b    == blocks[n]
             keep == {k \in 1..(n - 1) : volume(rest[k]) <= volume(b)}
             p    == Cardinality(keep)
         IN  SubSeq(rest, 1, p) \o <<b>> \o SubSeq(rest, p + 1, n - 1)

\* every block is kept
KeepZeroBlocks(blocks) == blocks

\* the blocks with a non-zero smallest dimension, in order
RECURSIVE DropZeroBlocks(_)
DropZeroBlocks(blocks) ==
    IF blocks = <<>> THEN <<>>
    ELSE IF Head(blocks)[1] # 0
         THEN <<Head(blocks)>> \o DropZeroBlocks(Tail(blocks))
         ELSE DropZeroBlocks(Tail(blocks))

\* the first loop without the test for twice the longest side
FirstLoopSideExact(sku_dims, box_dims) ==
    LET hit == {i \in 0..2 : box_dims[i + 1] = sku_dims[3]}
    IN  IF hit = {} THEN -1 ELSE CHOOSE i \in hit : \A j \in hit : i <= j

\* the first loop looking for an axis that holds the longest side twice
\* before it looks for an exact fit
FirstLoopSideTwiceFirst(sku_dims, box_dims) ==
    LET twice == {i \in 0..2 : box_dims[i + 1] >= sku_dims[3] * 2}
        exact == {i \in 0..2 : box_dims[i + 1] = sku_dims[3]}
        hit   == IF twice # {} THEN twice ELSE exact
    IN  IF hit = {} THEN -1 ELSE CHOOSE i \in hit : \A j \in hit : i <= j

\* first loop of best_fit: the first axis that holds the longest side twice
\* or exactly; -1 when the scan ends without a break
FirstLoopSide(sku_dims, box_dims) ==
    LET hit == {i \in 0..2 : box_dims[i + 1] >= sku_dims[3] * 2
                             \/ box_dims[i + 1] = sku_dims[3]}
    IN  IF hit = {} THEN -1 ELSE CHOOSE i \in hit : \A j \in hit : i <= j

\* second loop of best_fit: the first axis that holds the longest side once
SecondLoopSide(sku_dims, box_dims) ==
    LET hit == {i \in 0..2 : box_dims[i + 1] >= sku_dims[3]}
    IN  CHOOSE i \in hit : \A j \in hit : i <= j

\* side_1 of best_fit: the axis the longest side of the sku is laid along
best_fit_side_1(sku_dims, box_dims) ==
    LET f == FirstLoopSide(sku_dims, box_dims)
    IN  IF f >= 0 THEN f ELSE SecondLoopSide(sku_dims, box_dims)

\* block_1 as the whole layer above the sku
block_1_whole_layer(sku_dims, box_dims, side_1) ==
    Sort3(<<box_dims[side_1 + 1] - sku_dims[3],
            box_dims[Idx(side_1 - 1)], box_dims[Idx(side_1 - 2)]>>)

\* block_1 of the second loop: the space above the sku, on its footprint
block_1_above_sku(sku_dims, box_dims, side_1) ==
    Sort3(<<box_dims[side_1 + 1] - sku_dims[3], sku_dims[2], sku_dims[1]>>)

best_fit(sku_dims, box_dims) ==
    LET f       == FirstLoopSide(sku_dims, box_dims)
        twice   == f >= 0 /\ box_dims[f + 1] >= sku_dims[3] * 2
        side_1  == best_fit_side_1(sku_dims, box_dims)
        block_1 == IF twice
                   THEN <<Sort3(<<box_dims[side_1 + 1] - sku_dims[3],
                                  box_dims[Idx(side_1 - 1)],
                                  box_dims[Idx(side_1 - 2)]>>)>>
                   ELSE IF f >= 0 THEN <<>>
                   ELSE <<block_1_above_sku(sku_dims, box_dims, side_1)>>
        \* box_dims[i] = sku_dims[2] after the twice-branch
        bd      == IF twice
                   THEN [box_dims EXCEPT ![side_1 + 1] = sku_dims[3]]
                   ELSE box_dims
        s23     == get_side_2_side_3(sku_dims, bd, side_1)
        b1      == bd[side_1 + 1]
        b2      == bd[Idx(s23[1])]
        b3      == bd[Idx(s23[2])]
        block_2a == Sort3(<<b1, b2, b3 - sku_dims[1]>>)
        block_3a == Sort3(<<b1, b2 - sku_dims[2], sku_dims[1]>>)
        block_2b == Sort3(<<b1, b2 - sku_dims[2], b3>>)
        block_3b == Sort3(<<b1, b3 - sku_dims[1], sku_dims[2]>>)
        blocks  == IF volume(block_2a) < volume(block_2b)
                   THEN block_1 \o <<block_2a, block_3a>>
                   ELSE block_1 \o <<block_2b, block_3b>>
    IN  SortByVolume(DropZeroBlocks(blocks))

\* position of the last sku of skus_to_pack that fits the block, 0 if none
LastFit(skus_to_pack, block) ==
    LET hit == {k \in 1..Len(skus_to_pack) :
                    does_it_fit(skus_to_pack[k].dimensions, block)}
    IN  IF hit = {} THEN 0 ELSE CHOOSE k \in hit : \A j \in hit : k >= j

\* position of the first sku of skus_to_pack that fits the block, 0 if none
FirstFit(skus_to_pack, block) ==
    LET hit == {k \in 1..Len(skus_to_pack) :
                    does_it_fit(skus_to_pack[k].dimensions, block)}
    IN  IF hit = {} THEN 0 ELSE CHOOSE k \in hit : \A j \in hit : k <= j

\* the sku is not taken off the list
RemoveNone(s, k) == s

\* s without its k-th element
RemoveAt(s, k) == SubSeq(s, 1, k - 1) \o SubSeq(s, k + 1, Len(s))

\* every left-over block is appended
KeepAll(blocks, skus) == blocks

\* the loop over the left-over blocks ends at the first block it appends
RECURSIVE KeepFirstUseful(_, _)
KeepFirstUseful(blocks, skus) ==
    IF blocks = <<>> THEN <<>>
    ELSE IF something_fits(skus, Head(blocks))
         THEN <<Head(blocks)>>
         ELSE KeepFirstUseful(Tail(blocks), skus)

\* the left-over blocks that some remaining sku still fits, in order
RECURSIVE KeepUseful(_, _)
KeepUseful(blocks, skus) ==
    IF blocks = <<>> THEN <<>>
    ELSE IF something_fits(skus, Head(blocks))
         THEN <<Head(blocks)>> \o KeepUseful(Tail(blocks), skus)
         ELSE KeepUseful(Tail(blocks), skus)

\* one call of the single-block placer on a non-empty work-list
insert_skus_into_dimensions(remaining_dimensions, skus_to_pack, skus_packed) ==
    LET block == remaining_dimensions[1]
        k     == FirstFit(skus_to_pack, block)
    IN  IF k = 0
        THEN [remaining_dimensions |-> Tail(remaining_dimensions),
              skus_to_pack |-> skus_to_pack,
              skus_packed |-> skus_packed]
        ELSE LET sku  == skus_to_pack[k]
                 n    == Len(skus_packed)
                 left == RemoveAt(skus_to_pack, k)
             IN  [remaining_dimensions |->
                      Tail(remaining_dimensions
                           \o KeepUseful(best_fit(sku.dimensions, block), left)),
                  skus_to_pack |-> left,
                  skus_packed |->
                      [skus_packed EXCEPT ![n] = Append(skus_packed[n], sku)]]

\* the for loop of pack_boxes: Python's list iterator is at index i of the
\* list the placer pops from and appends to
RECURSIVE PackFor(_, _, _, _)
PackFor(remaining_dimensions, skus_to_pack, skus_packed, i) ==
    IF i < Len(remaining_dimensions)
    THEN LET r == insert_skus_into_dimensions(remaining_dimensions,
                                              skus_to_pack, skus_packed)
         IN  PackFor(r.remaining_dimensions, r.skus_to_pack, r.skus_packed, i + 1)
    ELSE [remaining_dimensions |-> remaining_dimensions,
          skus_to_pack |-> skus_to_pack,
          skus_packed |-> skus_packed]

\* the while loop of pack_boxes
RECURSIVE PackWhile(_, _, _, _)
PackWhile(box_dimensions, remaining_dimensions, skus_to_pack, skus_packed) ==
    IF Len(skus_to_pack) > 0
    THEN LET open == Len(remaining_dimensions) = 0
             r == PackFor(IF open THEN <<box_dimensions>>
                                  ELSE remaining_dimensions,
                          skus_to_pack,
                          IF open THEN Append(skus_packed, <<>>)
                                  ELSE skus_packed,
                          0)
         IN  PackWhile(box_dimensions, r.remaining_dimensions,
                       r.skus_to_pack, r.skus_packed)
    ELSE skus_packed

pack_boxes(box_dimensions, skus_to_pack) ==
    PackWhile(box_dimensions, <<>>, skus_to_pack, <<>>)

(***************************************************************************)
(* Helpers for lists of skus and boxes                                     *)
(***************************************************************************)

\* sum(sku.weight for sku in skus)
RECURSIVE weight_of_box_contents(_)
weight_of_box_contents(box_contents) ==
    IF box_contents = <<>> THEN 0
    ELSE Head(box_contents).weight + weight_of_box_contents(Tail(box_contents))

\* sorted(skus, key=longest dimension, reverse=True): stable, longest first
RECURSIVE SortSkus(_)
SortSkus(skus) ==
    IF Len(skus) <= 1 THEN skus
    ELSE LET n    == Len(skus)
             rest == SortSkus(SubSeq(skus, 1, n - 1))
             s    == skus[n]
             keep == {k \in 1..(n - 1) :
                          rest[k].dimensions[3] >= s.dimensions[3]}
             p    == Cardinality(keep)
         IN  SubSeq(rest, 1, p) \o <<s>> \o SubSeq(rest, p + 1, n - 1)

\* sorted(boxes, key=volume of the dimensions): stable, smallest first
RECURSIVE SortBoxes(_)
SortBoxes(boxes) ==
    IF Len(boxes) <= 1 THEN boxes
    ELSE LET n    == Len(boxes)
             rest == SortBoxes(SubSeq(boxes, 1, n - 1))
             b    == boxes[n]
             keep == {k \in 1..(n - 1) :
                          volume(rest[k].dimensions) <= volume(b.dimensions)}
             p    == Cardinality(keep)
         IN  SubSeq(rest, 1, p) \o <<b>> \o SubSeq(rest, p + 1, n - 1)

\* the concatenation of a list of lists
RECURSIVE Flatten(_)
Flatten(lists) ==
    IF lists = <<>> THEN <<>> ELSE Head(lists) \o Flatten(Tail(lists))

\* how many elements of s equal x
Count(s, x) == Cardinality({k \in 1..Len(s) : s[k] = x})

\* Python's None and a present value
None == <<>>
Some(x) == <<x>>

\* ShippingBox.total_cubic_cm of a box built from three sorted dimensions
total_cubic_cm(box) == volume(box.dimensions)

\* the descriptions of usps_shipping.USPS_BOXES
USPS_BOXES == {"flat rate", "regional rate"}

(***************************************************************************)
(* api_packing_algorithm: the boundary (helper.py)                         *)
(***************************************************************************)

DefaultMaxWeight == 31710

\* [ItemTuple(product_name, sorted dims, weight)] * quantity, line by line
RECURSIVE ExpandItems(_)
ExpandItems(lines) ==
    IF lines = <<>> THEN <<>>
    ELSE LET item == Head(lines)
             sku  == [sku_number |-> item.product_name,
                      dimensions |-> Sort3(<<item.width, item.height,
                                             item.length>>),
                      weight |-> item.weight]
         IN  [k \in 1..item.quantity |-> sku] \o ExpandItems(Tail(lines))

\* the dimensions of the first line only
min_box_dimensions_first(lines) ==
    IF lines = <<>> THEN <<0, 0, 0>>
    ELSE Sort3(<<lines[1].width, lines[1].height, lines[1].length>>)

\* component-wise maximum of the sorted dimensions of all lines; Python 2
\* orders None below every number
RECURSIVE min_box_dimensions(_)
min_box_dimensions(lines) ==
    IF lines = <<>> THEN <<0, 0, 0>>
    ELSE LET n == Len(lines)
             d == Sort3(<<lines[n].width, lines[n].height, lines[n].length>>)
             m == min_box_dimensions(SubSeq(lines, 1, n - 1))
         IN  <<Max2(d[1], m[1]), Max2(d[2], m[2]), Max2(d[3], m[3])>>

\* the ShippingBox of one input box, with its sorted dimensions
MakeBox(box) ==
    [name |-> box.name, description |-> "", weight_g |-> box.weight,
     dimensions |-> Sort3(<<box.width, box.length, box.height>>)]

\* the boxes every item fits, in input order
RECURSIVE FilterBoxes(_, _)
FilterBoxes(infos, min_dims) ==
    IF infos = <<>> THEN <<>>
    ELSE LET b == MakeBox(Head(infos))
         IN  IF does_it_fit(min_dims, b.dimensions)
             THEN <<b>> \o FilterBoxes(Tail(infos), min_dims)
             ELSE FilterBoxes(Tail(infos), min_dims)

\* len(set(names)) < len(boxes_info)
HasDuplicateNames(infos) ==
    \E i, j \in 1..Len(infos) : i < j /\ infos[i].name = infos[j].name

(***************************************************************************)
(* Box selector (packing_algorithm.py)                                     *)
(***************************************************************************)

\* usps_shipping.FLAT_RATE_COSTS, by box name
FlatRateCost(name) ==
    CASE name = "SmallFlatRateBox"  -> 1
      [] name = "MediumFlatRateBox" -> 2
      [] name = "LargeFlatRateBox"  -> 3
      [] OTHER -> 4

\* with zone = None: a regional box is never compared, a flat rate box wins
\* unless it costs more than the current best
compare_flat_rate_prices(box, best_flat_rate_box) ==
    IF best_flat_rate_box = None THEN box
    ELSE IF box.description = "regional rate" THEN best_flat_rate_box[1]
    ELSE IF FlatRateCost(box.name) > FlatRateCost(best_flat_rate_box[1].name)
         THEN best_flat_rate_box[1]
         ELSE box

\* the volumes are not compared: the box visited later wins the tie
any_volume(box, best_box) == TRUE

\* the larger box wins the tie
larger_volume(box, best_box) ==
    total_cubic_cm(box) > total_cubic_cm(best_box)

\* box.total_cubic_cm < best_boxes[key]['box'].total_cubic_cm
smaller_volume(box, best_box) ==
    total_cubic_cm(box) < total_cubic_cm(best_box)

\* one iteration of the loop over packed_boxes.iteritems()
BestBoxesStep(best_boxes, box, packed_skus) ==
    LET is_flat_rate == box.description \in USPS_BOXES
        key  == IF is_flat_rate THEN "flat_rate" ELSE "package"
        cur  == best_boxes[key]
        box_packs_better ==
            IF cur # None THEN Len(packed_skus) < cur[1].num_parcels ELSE TRUE
        box_packs_same ==
            IF cur # None THEN Len(packed_skus) = cur[1].num_parcels ELSE TRUE
    IN  IF box_packs_better
        THEN [best_boxes EXCEPT ![key] =
                  Some([box |-> box, num_parcels |-> Len(packed_skus)])]
        ELSE IF box_packs_same
        THEN IF is_flat_rate
             THEN [best_boxes EXCEPT ![key] =
                       Some([cur[1] EXCEPT !.box =
                                 compare_flat_rate_prices(box, Some(cur[1].box))])]
             ELSE IF smaller_volume(box, cur[1].box)
                  THEN [best_boxes EXCEPT ![key] = Some([cur[1] EXCEPT !.box = box])]
                  ELSE best_boxes
        ELSE best_boxes

\* the loop over packed_boxes.iteritems(), the dict being visited in `order`
RECURSIVE BestBoxes(_, _)
BestBoxes(packed_boxes, order) ==
    IF order = <<>> THEN [flat_rate |-> None, package |-> None]
    ELSE LET n == Len(order)
         IN  BestBoxesStep(BestBoxes(packed_boxes, SubSeq(order, 1, n - 1)),
                           order[n], packed_boxes[order[n]])

Packaging(box, skus_per_box, last_parcel) ==
    [box |-> box, skus_per_box |-> skus_per_box, last_parcel |-> last_parcel]

\* the other kind must need strictly more parcels
fewer_parcels(best, other) ==
    other = None \/ best[1].num_parcels < other[1].num_parcels

\* other is None or best['num_parcels'] <= other['num_parcels']
no_more_parcels(best, other) ==
    other = None \/ best[1].num_parcels <= other[1].num_parcels

\* setup_box_dictionary on a non-empty dict visited in `order`
setup_box_dictionary(packed_boxes, order) ==
    LET best_boxes     == BestBoxes(packed_boxes, order)
        best_flat_rate == best_boxes.flat_rate
        best_package   == best_boxes.package
    IN  [package |->
             IF best_package # None
                /\ no_more_parcels(best_package, best_flat_rate)
             THEN Some(Packaging(best_package[1].box,
                                 packed_boxes[best_package[1].box], None))
             ELSE None,
         flat_rate |->
             IF best_flat_rate # None
                /\ no_more_parcels(best_flat_rate, best_package)
             THEN Some(Packaging(best_flat_rate[1].box,
                                 packed_boxes[best_flat_rate[1].box], None))
             ELSE None]

\* the orders in which a dict with the given keys can be iterated
Orders(keys) ==
    {o \in [1..Cardinality(keys) -> keys] :
        \A i, j \in 1..Cardinality(keys) : i # j => o[i] # o[j]}

(***************************************************************************)
(* Inputs of the model                                                     *)
(***************************************************************************)

MaxQty == 2       \* largest quantity of one input line
MaxBoxes == 2     \* most boxes in one call
MaxCap == 4       \* largest explicit max_weight option
MaxParcels == 10  \* parcels of one box the redistribution may reach

\* the item lines a call may carry (centimeters and grams, so that the unit
\* conversions of the boundary leave the numbers as they are)
ItemLine(name, w, h, l, g, q) ==
    [product_name |-> name, width |-> w, height |-> h, length |-> l,
     weight |-> g, quantity |-> q]

ItemCatalog(qa, qb, qh) ==
    <<ItemLine("a", 1, 1, 1, 1, qa), ItemLine("b", 2, 1, 2, 2, qb),
      ItemLine("h", 1, 1, 1, 3, qh)>>

\* the lines with a positive quantity, in order
RECURSIVE Ordered(_)
Ordered(lines) ==
    IF lines = <<>> THEN <<>>
    ELSE IF Head(lines).quantity > 0
         THEN <<Head(lines)>> \o Ordered(Tail(lines))
         ELSE Ordered(Tail(lines))

ItemInputs ==
    {Ordered(ItemCatalog(qa, qb, qh)) : qa, qb, qh \in 0..MaxQty} \ {<<>>}

BoxInfo(name, w, l, h, g) ==
    [name |-> name, width |-> w, length |-> l, height |-> h, weight |-> g]

BoxCatalog ==
    {BoxInfo("M", 2, 1, 1, 1), BoxInfo("L", 2, 1, 2, 0),
     BoxInfo("XL", 2, 2, 2, 1)}

BoxInputs == UNION {[1..n -> BoxCatalog] : n \in 1..MaxBoxes}

CapInputs == (1..MaxCap) \cup {DefaultMaxWeight}

(***************************************************************************)
(* State of one api_packing_algorithm call                                 *)
(***************************************************************************)

VARIABLES
    pc,              \* where the call is
    error,           \* the exception raised, "" if none
    items_info,      \* input: the item lines
    boxes_info,      \* input: the boxes
    max_weight,      \* input: options['max_weight'], or the default
    skus_to_pack,    \* the skus, longest first
    useable_boxes,   \* the boxes every item fits, smallest volume first
    box_index,       \* position in useable_boxes of the box being packed
    packed_skus,     \* the parcels of the box being packed
    parcel_i,        \* index of the list iterator over packed_skus
    additional_box,  \* the overflow parcel being filled
    packed_boxes,    \* dict box -> parcels
    box_dictionary,  \* {'package': Packaging or None, 'flat_rate': ...}
    packages,        \* the 'packages' list returned
    item_info,       \* input of the helpers: width, height, length of the item
    box_info,        \* input of the helpers: width, height, length of the box
    max_packed,      \* input of how_many_items_fit: None or the cap
    box_dimensions,  \* input of pack_boxes: the sorted box dimensions
    skus_to_pack_copy,     \* pack_boxes: the skus still to pack
    remaining_dimensions,  \* the work-list of blocks
    skus_packed,     \* the parcels filled so far (items_packed)
    block_i,         \* index of the list iterator over remaining_dimensions
    remaining_volume,      \* how_many_items_fit: volume not yet used
    result           \* what a helper returns

\* the state of api_packing_algorithm and pre_pack_boxes
api_vars == <<items_info, boxes_info, max_weight, skus_to_pack,
              useable_boxes, box_index, packed_skus, parcel_i, additional_box,
              packed_boxes, box_dictionary, packages>>

\* the state of space_after_packing, how_many_items_fit and pack_boxes
helper_vars == <<item_info, box_info, max_packed, box_dimensions,
                 skus_to_pack_copy, remaining_dimensions, skus_packed,
                 block_i, remaining_volume, result>>

vars == <<pc, error, api_vars, helper_vars>>

inputs == <<items_info, boxes_info, max_weight>>

NoPacking == [package |-> None, flat_rate |-> None]

\* the empty dict
EmptyDict == [b \in {} |-> <<>>]

\* d with d[k] = v
DictSet(d, k, v) ==
    [x \in (DOMAIN d) \cup {k} |-> IF x = k THEN v ELSE d[x]]

\* no helper has been called
HelperIdle ==
    /\ item_info = <<>>
    /\ box_info = <<>>
    /\ max_packed = None
    /\ box_dimensions = <<>>
    /\ skus_to_pack_copy = <<>>
    /\ remaining_dimensions = <<>>
    /\ skus_packed = <<>>
    /\ block_i = 0
    /\ remaining_volume = 0
    /\ result = None

Init ==
    /\ pc = "start"
    /\ error = ""
    /\ items_info \in ItemInputs
    /\ boxes_info \in BoxInputs
    /\ max_weight \in CapInputs
    /\ skus_to_pack = <<>>
    /\ useable_boxes = <<>>
    /\ box_index = 0
    /\ packed_skus = <<>>
    /\ parcel_i = 0
    /\ additional_box = <<>>
    /\ packed_boxes = EmptyDict
    /\ box_dictionary = NoPacking
    /\ packages = <<>>
    /\ HelperIdle

Raise(e) ==
    /\ pc' = "raised"
    /\ error' = e

\* api_packing_algorithm up to the call of packing_algorithm, and the sort
\* packing_algorithm starts with
ApiStart ==
    /\ pc = "start"
    /\ UNCHANGED <<inputs, box_index, packed_skus, parcel_i, additional_box,
                   packed_boxes, box_dictionary, packages>>
    /\ IF HasDuplicateNames(boxes_info)
       THEN Raise("DuplicateBoxName") /\ UNCHANGED <<skus_to_pack, useable_boxes>>
       ELSE LET boxes == FilterBoxes(boxes_info, min_box_dimensions(items_info))
            IN  IF Len(boxes) = 0
                THEN Raise("NoBoxesFit")
                     /\ UNCHANGED <<skus_to_pack, useable_boxes>>
                ELSE /\ useable_boxes' = SortBoxes(boxes)
                     /\ skus_to_pack' = SortSkus(ExpandItems(items_info))
                     /\ pc' = "pack"
                     /\ UNCHANGED error
    /\ UNCHANGED helper_vars

\* the head of one iteration over useable_boxes: pack_boxes
PackBox ==
    /\ pc = "pack"
    /\ box_index < Len(useable_boxes)
    /\ box_index' = box_index + 1
    /\ packed_skus' = pack_boxes(useable_boxes[box_index + 1].dimensions,
                                 skus_to_pack)
    /\ additional_box' = <<>>
    /\ parcel_i' = 0
    /\ pc' = "redistribute"
    /\ UNCHANGED <<error, inputs, skus_to_pack, useable_boxes, packed_boxes,
                   box_dictionary, packages>>
    /\ UNCHANGED helper_vars

\* skus.pop(0) on the parcel at position p
PopFirst(parcels, p) ==
    [parcels EXCEPT ![p] = SubSeq(parcels[p], 2, Len(parcels[p]))]

\* skus.pop() on the parcel at position p
PopLast(parcels, p) ==
    [parcels EXCEPT ![p] = SubSeq(parcels[p], 1, Len(parcels[p]) - 1)]

\* one iteration of `for skus in packed_skus`, the list growing under the
\* iterator
RedistributeStep ==
    /\ pc = "redistribute"
    /\ parcel_i < Len(packed_skus)
    /\ LET box  == useable_boxes[box_index]
           skus == packed_skus[parcel_i + 1]
       IN  IF weight_of_box_contents(skus) + box.weight_g > max_weight
           THEN IF skus = <<>>
                THEN \* skus[-1] of an empty parcel
                     /\ Raise("IndexError")
                     /\ UNCHANGED <<packed_skus, additional_box, parcel_i>>
                ELSE LET last == skus[Len(skus)]
                     IN  IF weight_of_box_contents(additional_box)
                                + last.weight + box.weight_g <= max_weight
                         THEN /\ additional_box' = Append(additional_box, last)
                              /\ packed_skus' = PopLast(packed_skus, parcel_i + 1)
                              /\ parcel_i' = parcel_i + 1
                              /\ UNCHANGED <<pc, error>>
                         ELSE /\ Len(packed_skus) < MaxParcels
                              /\ packed_skus' =
                                     Append(PopLast(packed_skus, parcel_i + 1),
                                            additional_box)
                              /\ additional_box' = <<last>>
                              /\ parcel_i' = parcel_i + 1
                              /\ UNCHANGED <<pc, error>>
           ELSE /\ parcel_i' = parcel_i + 1
                /\ UNCHANGED <<pc, error, packed_skus, additional_box>>
    /\ UNCHANGED <<inputs, skus_to_pack, useable_boxes, box_index,
                   packed_boxes, box_dictionary, packages>>
    /\ UNCHANGED helper_vars

\* the overflow parcel left over is lost
drop_additional_box(parcels, overflow) == parcels

\* if len(additional_box) > 0: packed_skus.append(additional_box)
append_additional_box(parcels, overflow) ==
    IF Len(overflow) > 0 THEN Append(parcels, overflow) ELSE parcels

\* the end of the iteration over packed_skus: the last overflow parcel and
\* the entry of the box in packed_boxes
FinishBox ==
    /\ pc = "redistribute"
    /\ parcel_i >= Len(packed_skus)
    /\ packed_boxes' =
           DictSet(packed_boxes, useable_boxes[box_index],
                   append_additional_box(packed_skus, additional_box))
    /\ pc' = IF box_index < Len(useable_boxes) THEN "pack" ELSE "select"
    /\ UNCHANGED <<error, inputs, skus_to_pack, useable_boxes, box_index,
                   packed_skus, parcel_i, additional_box, box_dictionary,
                   packages>>
    /\ UNCHANGED helper_vars

\* setup_box_dictionary(packed_boxes, zone), the dict iterated in any order
SelectBox ==
    /\ pc = "select"
    /\ IF DOMAIN packed_boxes = {}
       THEN Raise("NoPackedBoxes") /\ UNCHANGED box_dictionary
       ELSE /\ \E order \in Orders(DOMAIN packed_boxes) :
                 box_dictionary' = setup_box_dictionary(packed_boxes, order)
            /\ pc' = "repack"
            /\ UNCHANGED error
    /\ UNCHANGED <<inputs, skus_to_pack, useable_boxes, box_index,
                   packed_skus, parcel_i, additional_box, packed_boxes,
                   packages>>
    /\ UNCHANGED helper_vars

\* a box as large as the package's box counts as smaller
RECURSIVE SmallerOrEqualBox(_, _, _, _)
SmallerOrEqualBox(boxes, i, package, smallest_skus_to_pack) ==
    IF i > Len(boxes) THEN None
    ELSE LET smaller_box == boxes[i]
         IN  IF smaller_box.description \notin USPS_BOXES
                /\ total_cubic_cm(smaller_box) <= total_cubic_cm(package.box)
                /\ Len(pack_boxes(smaller_box.dimensions,
                                  smallest_skus_to_pack)) = 1
             THEN Some(smaller_box)
             ELSE SmallerOrEqualBox(boxes, i + 1, package,
                                    smallest_skus_to_pack)

\* the loop over useable_boxes that repacks the last parcel: the first box,
\* from position i on, that is no USPS box, is smaller than the package's
\* box and packs the skus into one parcel; None if there is none
RECURSIVE SmallerBox(_, _, _, _)
SmallerBox(boxes, i, package, smallest_skus_to_pack) ==
    IF i > Len(boxes) THEN None
    ELSE LET smaller_box == boxes[i]
         IN  IF smaller_box.description \notin USPS_BOXES
                /\ total_cubic_cm(smaller_box) < total_cubic_cm(package.box)
                /\ Len(pack_boxes(smaller_box.dimensions,
                                  smallest_skus_to_pack)) = 1
             THEN Some(smaller_box)
             ELSE SmallerBox(boxes, i + 1, package, smallest_skus_to_pack)

\* the last-parcel repack of packing_algorithm
repack_last_parcel(dictionary, boxes) ==
    IF dictionary.package # None
       /\ Len(dictionary.package[1].skus_per_box) > 1
    THEN LET package == dictionary.package[1]
             smallest_skus_to_pack ==
                 package.skus_per_box[Len(package.skus_per_box)]
             found == SmallerBox(boxes, 1, package, smallest_skus_to_pack)
         IN  IF found # None
             THEN [dictionary EXCEPT !.package =
                       Some([package EXCEPT !.last_parcel = found])]
             ELSE dictionary
    ELSE dictionary

RepackLastParcel ==
    /\ pc = "repack"
    /\ box_dictionary' = repack_last_parcel(box_dictionary, useable_boxes)
    /\ pc' = "return"
    /\ UNCHANGED <<error, inputs, skus_to_pack, useable_boxes, box_index,
                   packed_skus, parcel_i, additional_box, packed_boxes,
                   packages>>
    /\ UNCHANGED helper_vars

\* get_item_dictionary_from_list and the quantities read from it:
\* product name -> number of items of that name in the parcel
PackedProducts(parcel) ==
    [n \in {parcel[k].sku_number : k \in 1..Len(parcel)} |->
        Cardinality({k \in 1..Len(parcel) : parcel[k].sku_number = n})]

\* the 'packages' list api_packing_algorithm builds from the package
package_contents(package_info) ==
    LET n == Len(package_info.skus_per_box)
    IN  [i \in 1..n |->
            LET selected_box ==
                    IF i = n /\ package_info.last_parcel # None
                    THEN package_info.last_parcel[1]
                    ELSE package_info.box
            IN  [packed_products |-> PackedProducts(package_info.skus_per_box[i]),
                 total_weight |->
                     selected_box.weight_g
                     + weight_of_box_contents(package_info.skus_per_box[i]),
                 box |-> selected_box.name]]

ApiReturn ==
    /\ pc = "return"
    /\ IF box_dictionary.package = None
       THEN Raise("AttributeError") /\ UNCHANGED packages
       ELSE /\ packages' = package_contents(box_dictionary.package[1])
            /\ pc' = "done"
            /\ UNCHANGED error
    /\ UNCHANGED <<inputs, skus_to_pack, useable_boxes, box_index,
                   packed_skus, parcel_i, additional_box, packed_boxes,
                   box_dictionary>>
    /\ UNCHANGED helper_vars

Next ==
    \/ ApiStart
    \/ PackBox
    \/ RedistributeStep
    \/ FinishBox
    \/ SelectBox
    \/ RepackLastParcel
    \/ ApiReturn

Spec == Init /\ [][Next]_vars

(***************************************************************************)
(* api_packing_algorithm on flat items of four lengths and two flat boxes, *)
(* where a parcel is not filled in the order of the candidates             *)
(***************************************************************************)

FlatItemCatalog(qc, qd, qe, qf) ==
    <<ItemLine("c", 1, 1, 1, 1, qc), ItemLine("d", 1, 1, 2, 1, qd),
      ItemLine("e", 1, 1, 3, 1, qe), ItemLine("f", 1, 2, 3, 1, qf)>>

FlatItemInputs ==
    {Ordered(FlatItemCatalog(qc, qd, qe, qf)) :
         qc, qd, qe, qf \in 0..MaxQty} \ {<<>>}

FlatBoxCatalog == {BoxInfo("S", 1, 2, 3, 0), BoxInfo("B", 3, 1, 3, 0)}

FlatBoxInputs == UNION {[1..n -> FlatBoxCatalog] : n \in 1..MaxBoxes}

InitFlat ==
    /\ pc = "start"
    /\ error = ""
    /\ items_info \in FlatItemInputs
    /\ boxes_info \in FlatBoxInputs
    /\ max_weight = DefaultMaxWeight
    /\ skus_to_pack = <<>>
    /\ useable_boxes = <<>>
    /\ box_index = 0
    /\ packed_skus = <<>>
    /\ parcel_i = 0
    /\ additional_box = <<>>
    /\ packed_boxes = EmptyDict
    /\ box_dictionary = NoPacking
    /\ packages = <<>>
    /\ HelperIdle

SpecFlat == InitFlat /\ [][Next]_vars

(***************************************************************************)
(* The box selector on its own: setup_box_dictionary on any dict           *)
(***************************************************************************)

MaxCount == 2     \* most parcels of one box in a dict given to the selector

SelectorBox(name, description, dims) ==
    [name |-> name, description |-> description, weight_g |-> 0,
     dimensions |-> dims]

SelectorBoxes ==
    {SelectorBox("Small", "", <<1, 1, 2>>),
     SelectorBox("NORM", "", <<1, 2, 2>>),
     SelectorBox("Long", "", <<1, 1, 4>>),
     SelectorBox("SmallFlatRateBox", "flat rate", <<1, 1, 2>>),
     SelectorBox("MediumFlatRateBox", "flat rate", <<1, 2, 2>>)}

\* n parcels of one sku each, the sku named after the box
ParcelsOf(box, n) ==
    [i \in 1..n |-> <<[sku_number |-> box.name, dimensions |-> <<1, 1, 1>>,
                       weight |-> 0]>>]

\* the dicts box -> parcels over the boxes, the empty dict included
SelectorInputs ==
    UNION {{[b \in keys |-> ParcelsOf(b, count[b])] :
                count \in [keys -> 1..MaxCount]} :
           keys \in SUBSET SelectorBoxes}

InitSelect ==
    /\ pc = "select"
    /\ error = ""
    /\ items_info = <<>>
    /\ boxes_info = <<>>
    /\ max_weight = DefaultMaxWeight
    /\ skus_to_pack = <<>>
    /\ useable_boxes = <<>>
    /\ box_index = 0
    /\ packed_skus = <<>>
    /\ parcel_i = 0
    /\ additional_box = <<>>
    /\ packed_boxes \in SelectorInputs
    /\ box_dictionary = NoPacking
    /\ packages = <<>>
    /\ HelperIdle

SpecSelect == InitSelect /\ [][SelectBox]_vars

(***************************************************************************)
(* pre_pack_boxes: one box, then the weight redistribution (helper.py)     *)
(***************************************************************************)

\* box_weight plus the weight of every line times its quantity
RECURSIVE total_weight(_, _)
total_weight(box_weight, lines) ==
    IF lines = <<>> THEN box_weight
    ELSE Head(lines).weight * Head(lines).quantity
         + total_weight(box_weight, Tail(lines))

\* some line does not fit the box
TooBigForBox(lines, box_dims) ==
    \E k \in 1..Len(lines) :
        ~does_it_fit(Sort3(<<lines[k].height, lines[k].length,
                             lines[k].width>>), box_dims)

\* the parcel_shipments list pre_pack_boxes returns
parcel_shipments(items_packed, box_weight) ==
    [i \in 1..Len(items_packed) |->
        [packed_products |-> PackedProducts(items_packed[i]),
         total_weight |-> box_weight + weight_of_box_contents(items_packed[i])]]

InitPrePack ==
    /\ pc = "pre_start"
    /\ error = ""
    /\ items_info \in ItemInputs
    /\ boxes_info \in {<<b>> : b \in BoxCatalog}
    /\ max_weight \in CapInputs
    /\ skus_to_pack = <<>>
    /\ useable_boxes = <<>>
    /\ box_index = 0
    /\ packed_skus = <<>>
    /\ parcel_i = 0
    /\ additional_box = <<>>
    /\ packed_boxes = EmptyDict
    /\ box_dictionary = NoPacking
    /\ packages = <<>>
    /\ HelperIdle

\* pre_pack_boxes up to the test that decides whether parcels are split by
\* weight
PrePackStart ==
    /\ pc = "pre_start"
    /\ LET box == MakeBox(boxes_info[1])
       IN  IF TooBigForBox(items_info, box.dimensions)
           THEN /\ Raise("TooBig")
                /\ UNCHANGED <<skus_to_pack, packed_skus>>
           ELSE LET items_to_pack == SortSkus(ExpandItems(items_info))
                    items_packed  == pack_boxes(box.dimensions, items_to_pack)
                IN  /\ skus_to_pack' = items_to_pack
                    /\ packed_skus' = items_packed
                    \* math.ceil(total_weight / max_weight) > len(items_packed)
                    /\ pc' = IF total_weight(box.weight_g, items_info)
                                  > Len(items_packed) * max_weight
                             THEN "pre_redistribute"
                             ELSE "pre_return"
                    /\ UNCHANGED error
    /\ UNCHANGED <<inputs, useable_boxes, box_index, parcel_i, additional_box,
                   packed_boxes, box_dictionary, packages>>
    /\ UNCHANGED helper_vars

\* one iteration of the while loop on the parcel under the iterator
PrePackPop ==
    /\ pc = "pre_redistribute"
    /\ parcel_i < Len(packed_skus)
    /\ LET box_weight == MakeBox(boxes_info[1]).weight_g
           items == packed_skus[parcel_i + 1]
       IN  /\ weight_of_box_contents(items) + box_weight > max_weight
           /\ IF items = <<>>
              THEN \* items[-1] of an empty parcel
                   /\ Raise("IndexError")
                   /\ UNCHANGED <<packed_skus, additional_box>>
              ELSE LET last == items[Len(items)]
                   IN  IF weight_of_box_contents(additional_box) + last.weight
                              <= max_weight
                       THEN /\ additional_box' = Append(additional_box, last)
                            /\ packed_skus' = PopLast(packed_skus, parcel_i + 1)
                            /\ UNCHANGED <<pc, error>>
                       ELSE /\ Len(packed_skus) < MaxParcels
                            /\ packed_skus' =
                                   Append(PopLast(packed_skus, parcel_i + 1),
                                          additional_box)
                            /\ additional_box' = <<last>>
                            /\ UNCHANGED <<pc, error>>
    /\ UNCHANGED <<inputs, skus_to_pack, useable_boxes, box_index, parcel_i,
                   packed_boxes, box_dictionary, packages>>
    /\ UNCHANGED helper_vars

\* the while loop ends: the for loop moves to the next parcel
PrePackNext ==
    /\ pc = "pre_redistribute"
    /\ parcel_i < Len(packed_skus)
    /\ weight_of_box_contents(packed_skus[parcel_i + 1])
           + MakeBox(boxes_info[1]).weight_g <= max_weight
    /\ parcel_i' = parcel_i + 1
    /\ UNCHANGED <<pc, error, inputs, skus_to_pack, useable_boxes, box_index,
                   packed_skus, additional_box, packed_boxes, box_dictionary,
                   packages>>
    /\ UNCHANGED helper_vars

\* the for loop ends: items_packed.append(additional_box)
PrePackFinish ==
    /\ pc = "pre_redistribute"
    /\ parcel_i >= Len(packed_skus)
    /\ packed_skus' = Append(packed_skus, additional_box)
    /\ pc' = "pre_return"
    /\ UNCHANGED <<error, inputs, skus_to_pack, useable_boxes, box_index,
                   parcel_i, additional_box, packed_boxes, box_dictionary,
                   packages>>
    /\ UNCHANGED helper_vars

PrePackReturn ==
    /\ pc = "pre_return"
    /\ packages' = parcel_shipments(packed_skus,
                                    MakeBox(boxes_info[1]).weight_g)
    /\ pc' = "done"
    /\ UNCHANGED <<error, inputs, skus_to_pack, useable_boxes, box_index,
                   packed_skus, parcel_i, additional_box, packed_boxes,
                   box_dictionary>>
    /\ UNCHANGED helper_vars

NextPrePack ==
    \/ PrePackStart
    \/ PrePackPop
    \/ PrePackNext
    \/ PrePackFinish
    \/ PrePackReturn

SpecPrePack == InitPrePack /\ [][NextPrePack]_vars

(***************************************************************************)
(* space_after_packing (helper.py)                                         *)
(***************************************************************************)

MaxDim == 4       \* longest side of an item or a box given to a helper

\* width, height and length as a helper is given them, in any order
HelperInfo(w, h, l) == [width |-> w, height |-> h, length |-> l]

HelperInputs == {HelperInfo(w, h, l) : w, h, l \in 0..MaxDim}

\* sorted([info['width'], info['height'], info['length']])
sorted_dims(info) == Sort3(<<info.width, info.height, info.length>>)

\* sum(volume(block) for block in remaining_dimensions)
RECURSIVE sum_of_volumes(_)
sum_of_volumes(blocks) ==
    IF blocks = <<>> THEN 0
    ELSE volume(Head(blocks)) + sum_of_volumes(Tail(blocks))

\* the longest side reported as the width
blocks_longest_first(blocks) ==
    [k \in 1..Len(blocks) |->
        [width |-> blocks[k][3], height |-> blocks[k][2],
         length |-> blocks[k][1]]]

\* the blocks as dicts of width, height and length
remaining_dimensional_blocks(blocks) ==
    [k \in 1..Len(blocks) |->
        [width |-> blocks[k][1], height |-> blocks[k][2],
         length |-> blocks[k][3]]]

InitSpace ==
    /\ pc = "space"
    /\ error = ""
    /\ items_info = <<>>
    /\ boxes_info = <<>>
    /\ max_weight = DefaultMaxWeight
    /\ skus_to_pack = <<>>
    /\ useable_boxes = <<>>
    /\ box_index = 0
    /\ packed_skus = <<>>
    /\ parcel_i = 0
    /\ additional_box = <<>>
    /\ packed_boxes = EmptyDict
    /\ box_dictionary = NoPacking
    /\ packages = <<>>
    /\ item_info \in HelperInputs
    /\ box_info \in HelperInputs
    /\ max_packed = None
    /\ box_dimensions = <<>>
    /\ skus_to_pack_copy = <<>>
    /\ remaining_dimensions = <<>>
    /\ skus_packed = <<>>
    /\ block_i = 0
    /\ remaining_volume = 0
    /\ result = None

space_after_packing ==
    /\ pc = "space"
    /\ LET item_dims == sorted_dims(item_info)
           box_dims  == sorted_dims(box_info)
       IN  IF ~does_it_fit(item_dims, box_dims)
           THEN /\ Raise("DoesNotFit")
                /\ UNCHANGED <<remaining_dimensions, result>>
           ELSE /\ remaining_dimensions' = best_fit(item_dims, box_dims)
                /\ result' =
                       Some([remaining_volume |->
                                 sum_of_volumes(remaining_dimensions'),
                             remaining_dimensional_blocks |->
                                 remaining_dimensional_blocks(
                                     remaining_dimensions')])
                /\ pc' = "done"
                /\ UNCHANGED error
    /\ UNCHANGED <<api_vars, item_info, box_info, max_packed, box_dimensions,
                   skus_to_pack_copy, skus_packed, block_i, remaining_volume>>

SpecSpace == InitSpace /\ [][space_after_packing]_vars

(***************************************************************************)
(* how_many_items_fit (helper.py)                                          *)
(***************************************************************************)

MaxSide == 3      \* longest side of an item or a box whose capacity is asked
MaxCapped == 3    \* largest max_packed given

\* the most items a box holds when the item has a volume, and one more
PackedLimit == MaxSide * MaxSide * MaxSide + 1

\* items and boxes, the sides in ascending order (the helper sorts them)
HowManyInputs ==
    {HelperInfo(w, h, l) : w, h, l \in 0..MaxSide} \cap
    {i \in [width : 0..MaxSide, height : 0..MaxSide, length : 0..MaxSide] :
        i.width <= i.height /\ i.height <= i.length}

MaxPackedInputs == {None} \cup {Some(c) : c \in 0..MaxCapped}

\* ItemTuple(None, item_dims, weight)
HowManyItem(item_dims) ==
    [sku_number |-> "item", dimensions |-> item_dims, weight |-> 0]

\* one item volume every call, packed or not
volume_of_one_item(item_dims, items_to_pack) == volume(item_dims)

\* volume(item_dims) * (4 - len(items_to_pack))
volume_packed(item_dims, items_to_pack) ==
    volume(item_dims) * (4 - Len(items_to_pack))

\* the for loop of how_many_items_fit with no max_packed, as pack_boxes runs
\* it: how many items the box holds
RECURSIVE HowManyFor(_, _, _, _)
HowManyFor(item, blocks, packed, i) ==
    IF i < Len(blocks)
    THEN LET r == insert_skus_into_dimensions(blocks, <<item, item, item, item>>,
                                              packed)
         IN  HowManyFor(item, r.remaining_dimensions, r.skus_packed, i + 1)
    ELSE [remaining_dimensions |-> blocks, skus_packed |-> packed]

RECURSIVE HowManyWhile(_, _, _)
HowManyWhile(item, blocks, packed) ==
    IF blocks # <<>>
    THEN LET r == HowManyFor(item, blocks, packed, 0)
         IN  HowManyWhile(item, r.remaining_dimensions, r.skus_packed)
    ELSE Len(packed[1])

\* total_packed of how_many_items_fit(item_info, box_info)
total_packed(item_dims, box_dims) ==
    HowManyWhile(HowManyItem(item_dims), <<box_dims>>, <<<<>>>>)

InitHowMany ==
    /\ pc = "how_many"
    /\ error = ""
    /\ items_info = <<>>
    /\ boxes_info = <<>>
    /\ max_weight = DefaultMaxWeight
    /\ skus_to_pack = <<>>
    /\ useable_boxes = <<>>
    /\ box_index = 0
    /\ packed_skus = <<>>
    /\ parcel_i = 0
    /\ additional_box = <<>>
    /\ packed_boxes = EmptyDict
    /\ box_dictionary = NoPacking
    /\ packages = <<>>
    /\ item_info \in HowManyInputs
    /\ box_info \in HowManyInputs
    /\ max_packed \in MaxPackedInputs
    /\ box_dimensions = <<>>
    /\ skus_to_pack_copy = <<>>
    /\ remaining_dimensions = <<>>
    /\ skus_packed = <<>>
    /\ block_i = 0
    /\ remaining_volume = 0
    /\ result = None

\* how_many_items_fit up to its while loop
HowManyStart ==
    /\ pc = "how_many"
    /\ remaining_dimensions' = <<sorted_dims(box_info)>>
    /\ remaining_volume' = volume(sorted_dims(box_info))
    /\ skus_packed' = <<<<>>>>
    /\ block_i' = 0
    /\ pc' = "count"
    /\ UNCHANGED <<error, api_vars, item_info, box_info, max_packed,
                   box_dimensions, skus_to_pack_copy, result>>

\* one iteration of `for block in remaining_dimensions`
HowManyInsert ==
    /\ pc = "count"
    /\ block_i < Len(remaining_dimensions)
    /\ LET item_dims == sorted_dims(item_info)
           item == HowManyItem(item_dims)
           r == insert_skus_into_dimensions(remaining_dimensions,
                                            <<item, item, item, item>>,
                                            skus_packed)
       IN  /\ Len(r.skus_packed[1]) <= PackedLimit
           /\ skus_packed' = r.skus_packed
           /\ remaining_volume' =
                  remaining_volume - volume_packed(item_dims, r.skus_to_pack)
           /\ IF max_packed # None /\ Len(r.skus_packed[1]) = max_packed[1]
              THEN \* break, with nothing left for the while loop
                   /\ remaining_dimensions' = <<>>
                   /\ block_i' = 0
              ELSE /\ remaining_dimensions' = r.remaining_dimensions
                   /\ block_i' = block_i + 1
    /\ UNCHANGED <<pc, error, api_vars, item_info, box_info, max_packed,
                   box_dimensions, skus_to_pack_copy, result>>

\* the for loop ends with blocks left: the while loop starts it again
HowManyNextPass ==
    /\ pc = "count"
    /\ block_i >= Len(remaining_dimensions)
    /\ remaining_dimensions # <<>>
    /\ block_i' = 0
    /\ UNCHANGED <<pc, error, api_vars, item_info, box_info, max_packed,
                   box_dimensions, skus_to_pack_copy, remaining_dimensions,
                   skus_packed, remaining_volume, result>>

HowManyReturn ==
    /\ pc = "count"
    /\ remaining_dimensions = <<>>
    /\ result' = Some([total_packed |-> Len(skus_packed[1]),
                       remaining_volume |-> remaining_volume])
    /\ pc' = "done"
    /\ UNCHANGED <<error, api_vars, item_info, box_info, max_packed,
                   box_dimensions, skus_to_pack_copy, remaining_dimensions,
                   skus_packed, block_i, remaining_volume>>

NextHowMany ==
    \/ HowManyStart
    \/ HowManyInsert
    \/ HowManyNextPass
    \/ HowManyReturn

SpecHowMany == InitHowMany /\ [][NextHowMany]_vars

(***************************************************************************)
(* pack_boxes, one call of the placer at a time (packing_algorithm.py)      *)
(***************************************************************************)

MaxItems == 3     \* most skus of mixed sizes in one call of pack_boxes
MaxBoxSide == 3   \* longest side of the box they are packed in
MaxCubes == 9     \* most identical cubes in one call of pack_boxes
MaxMultiple == 2  \* longest side of the box of the cubes, in cubes

PackSku(dims) == [sku_number |-> "sku", dimensions |-> dims, weight |-> 0]

\* the sorted dimensions of the skus of mixed sizes
PackSkuDims == {<<1, 1, 1>>, <<1, 1, 2>>, <<1, 2, 2>>, <<2, 2, 2>>}

\* the sorted triples over a set of lengths
SortedTriples(lengths) ==
    {d \in lengths \X lengths \X lengths : d[1] <= d[2] /\ d[2] <= d[3]}

\* skus in any order (the last parcel is packed again as it lies) and a box
\* every sku fits, as the callers of pack_boxes have tested
MixedInputs ==
    {in \in [box : SortedTriples(1..MaxBoxSide),
             skus : UNION {[1..n -> {PackSku(d) : d \in PackSkuDims}] :
                               n \in 1..MaxItems}] :
        \A k \in 1..Len(in.skus) : does_it_fit(in.skus[k].dimensions, in.box)}

\* the sides of the cubes
CubeSides == {1, 2}

\* identical cubes and a box of whole cubes along every side
CubeInputs ==
    {[box |-> <<m[1] * d, m[2] * d, m[3] * d>>,
      skus |-> [k \in 1..n |-> PackSku(<<d, d, d>>)]] :
        d \in CubeSides, m \in SortedTriples(1..MaxMultiple), n \in 1..MaxCubes}

PackInputs == MixedInputs \cup CubeInputs

\* parcels a call of pack_boxes is followed up to: more than it makes of
\* skus that all fit the box
PackParcelLimit == MaxCubes + MaxItems

InitPack ==
    /\ pc = "pack_boxes"
    /\ error = ""
    /\ items_info = <<>>
    /\ boxes_info = <<>>
    /\ max_weight = DefaultMaxWeight
    /\ \E in \in PackInputs :
           /\ box_dimensions = in.box
           /\ skus_to_pack = in.skus
    /\ useable_boxes = <<>>
    /\ box_index = 0
    /\ packed_skus = <<>>
    /\ parcel_i = 0
    /\ additional_box = <<>>
    /\ packed_boxes = EmptyDict
    /\ box_dictionary = NoPacking
    /\ packages = <<>>
    /\ item_info = <<>>
    /\ box_info = <<>>
    /\ max_packed = None
    /\ skus_to_pack_copy = <<>>
    /\ remaining_dimensions = <<>>
    /\ skus_packed = <<>>
    /\ block_i = 0
    /\ remaining_volume = 0
    /\ result = None

\* pack_boxes up to its while loop
PackStart ==
    /\ pc = "pack_boxes"
    /\ remaining_dimensions' = <<>>
    /\ skus_packed' = <<>>
    /\ skus_to_pack_copy' = skus_to_pack
    /\ pc' = "pack_while"
    /\ UNCHANGED <<error, api_vars, item_info, box_info, max_packed,
                   box_dimensions, block_i, remaining_volume, result>>

\* every pass of the while loop opens a parcel
PackPassOpensAlways ==
    /\ pc = "pack_while"
    /\ Len(skus_to_pack_copy) > 0
    /\ Len(skus_packed) < PackParcelLimit
    /\ remaining_dimensions' = <<box_dimensions>>
    /\ skus_packed' = Append(skus_packed, <<>>)
    /\ block_i' = 0
    /\ pc' = "pack_for"
    /\ UNCHANGED <<error, api_vars, item_info, box_info, max_packed,
                   box_dimensions, skus_to_pack_copy, remaining_volume, result>>

\* the while loop goes on: a parcel is opened if no block is left, and the
\* for loop starts
PackPass ==
    /\ pc = "pack_while"
    /\ Len(skus_to_pack_copy) > 0
    /\ IF Len(remaining_dimensions) = 0
       THEN /\ Len(skus_packed) < PackParcelLimit
            /\ remaining_dimensions' = <<box_dimensions>>
            /\ skus_packed' = Append(skus_packed, <<>>)
       ELSE UNCHANGED <<remaining_dimensions, skus_packed>>
    /\ block_i' = 0
    /\ pc' = "pack_for"
    /\ UNCHANGED <<error, api_vars, item_info, box_info, max_packed,
                   box_dimensions, skus_to_pack_copy, remaining_volume, result>>

\* one iteration of `for block in remaining_dimensions`
PackInsert ==
    /\ pc = "pack_for"
    /\ block_i < Len(remaining_dimensions)
    /\ LET r == insert_skus_into_dimensions(remaining_dimensions,
                                            skus_to_pack_copy, skus_packed)
       IN  /\ remaining_dimensions' = r.remaining_dimensions
           /\ skus_to_pack_copy' = r.skus_to_pack
           /\ skus_packed' = r.skus_packed
    /\ block_i' = block_i + 1
    /\ UNCHANGED <<pc, error, api_vars, item_info, box_info, max_packed,
                   box_dimensions, remaining_volume, result>>

\* the for loop ends
PackForEnd ==
    /\ pc = "pack_for"
    /\ block_i >= Len(remaining_dimensions)
    /\ pc' = "pack_while"
    /\ UNCHANGED <<error, api_vars, helper_vars>>

\* the while loop ends: return skus_packed
PackReturn ==
    /\ pc = "pack_while"
    /\ Len(skus_to_pack_copy) = 0
    /\ result' = Some(skus_packed)
    /\ pc' = "done"
    /\ UNCHANGED <<error, api_vars, item_info, box_info, max_packed,
                   box_dimensions, skus_to_pack_copy, remaining_dimensions,
                   skus_packed, block_i, remaining_volume>>

NextPack ==
    \/ PackStart
    \/ PackPass
    \/ PackInsert
    \/ PackForEnd
    \/ PackReturn

SpecPack == InitPack /\ [][NextPack]_vars

(***************************************************************************)
(* pack_boxes on skus that need not fit the box                            *)
(***************************************************************************)

MaxAnySkus == 2   \* most skus in one call of pack_boxes on any skus

\* dimensions in any order, as a caller that does not sort them passes them
AnySkuDims == {1, 2} \X {1, 2} \X {1, 2}

\* a sorted box and skus of which any may not fit it
AnyInputs ==
    [box : SortedTriples({1, 2}),
     skus : UNION {[1..n -> {PackSku(d) : d \in AnySkuDims}] :
                       n \in 1..MaxAnySkus}]

InitPackAny ==
    /\ pc = "pack_boxes"
    /\ error = ""
    /\ items_info = <<>>
    /\ boxes_info = <<>>
    /\ max_weight = DefaultMaxWeight
    /\ \E in \in AnyInputs :
           /\ box_dimensions = in.box
           /\ skus_to_pack = in.skus
    /\ useable_boxes = <<>>
    /\ box_index = 0
    /\ packed_skus = <<>>
    /\ parcel_i = 0
    /\ additional_box = <<>>
    /\ packed_boxes = EmptyDict
    /\ box_dictionary = NoPacking
    /\ packages = <<>>
    /\ item_info = <<>>
    /\ box_info = <<>>
    /\ max_packed = None
    /\ skus_to_pack_copy = <<>>
    /\ remaining_dimensions = <<>>
    /\ skus_packed = <<>>
    /\ block_i = 0
    /\ remaining_volume = 0
    /\ result = None

SpecPackAny == InitPackAny /\ [][NextPack]_vars

(***************************************************************************)
(* Properties of a returned packing                                        *)
(***************************************************************************)

Returned == pc = "done"
Package == box_dictionary.package[1]
Parcels == Package.skus_per_box
InputSkus == ExpandItems(items_info)

\* the two lists hold the same elements the same number of times
SameItems(s, t) ==
    /\ Len(s) = Len(t)
    /\ \A k \in 1..Len(s) : Count(s, s[k]) = Count(t, s[k])

\* the quantity of product `name` over the packages of the response
RECURSIVE QuantityPacked(_, _)
QuantityPacked(pkgs, name) ==
    IF pkgs = <<>> THEN 0
    ELSE (IF name \in DOMAIN Head(pkgs).packed_products
          THEN Head(pkgs).packed_products[name] ELSE 0)
         + QuantityPacked(Tail(pkgs), name)

\* the quantity of product `name` over the input lines
RECURSIVE QuantityOrdered(_, _)
QuantityOrdered(lines, name) ==
    IF lines = <<>> THEN 0
    ELSE (IF Head(lines).product_name = name THEN Head(lines).quantity ELSE 0)
         + QuantityOrdered(Tail(lines), name)

ProductNames == {"a", "b", "h"}

\* the box the i-th parcel of the returned packing is shipped in
ParcelBox(i) ==
    IF i = Len(Parcels) /\ Package.last_parcel # None
    THEN Package.last_parcel[1]
    ELSE Package.box

\* the redistribution moved at least one item of the selected box
Redistributed ==
    Parcels # pack_boxes(Package.box.dimensions, skus_to_pack)

\* C1: when the call returns, the items over all parcels of the returned
\* packing are the input items after quantity expansion, each as often as it
\* was ordered, and so are the quantities of the packages of the response.
Conservation ==
    Returned =>
        /\ SameItems(Flatten(Parcels), InputSkus)
        /\ \A name \in ProductNames :
               QuantityPacked(packages, name) = QuantityOrdered(items_info, name)

ConservationWitness ==
    /\ Returned
    /\ Redistributed
    /\ Package.last_parcel # None
    /\ Len(items_info) > 1

\* C2: when the call returns, every parcel weighs, with the tare of the
\* selected box, at most max_weight.
WeightCap ==
    Returned =>
        \A i \in 1..Len(Parcels) :
            Package.box.weight_g + weight_of_box_contents(Parcels[i])
                <= max_weight

\* C3: the call does not return when some item weighs, with the tare of the
\* box, more than max_weight.
ItemTooHeavy ==
    Returned =>
        \A k \in 1..Len(InputSkus) :
            InputSkus[k].weight + Package.box.weight_g <= max_weight

\* every item of the list weighs, with the tare, more than max_weight
AllTooHeavy(skus, tare) ==
    \A k \in 1..Len(skus) : skus[k].weight + tare > max_weight

\* the parcels the redistribution has still to visit and the overflow parcel
\* all hold items, each too heavy for the box: every visit pops an item,
\* appends the overflow parcel behind the iterator and starts a new overflow
\* parcel with the item popped
Endless ==
    /\ pc = "redistribute"
    /\ parcel_i < Len(packed_skus)
    /\ \A j \in (parcel_i + 1)..Len(packed_skus) :
           /\ packed_skus[j] # <<>>
           /\ AllTooHeavy(packed_skus[j], useable_boxes[box_index].weight_g)
    /\ additional_box # <<>>
    /\ AllTooHeavy(additional_box, useable_boxes[box_index].weight_g)

\* C4: every call ends, it returns or it raises: the loop that appends
\* parcels to the list it iterates never comes to visit a parcel it can only
\* answer by appending another parcel to visit.
RedistributionEnds == ~Endless

\* a visit that starts in such a state ends in one: the loop has no exit
EndlessIsClosed == [][Endless => Endless']_vars

\* the bound on the parcels of a box stops no other run than these
OnlyEndlessIsCut ==
    (/\ pc = "redistribute"
     /\ parcel_i < Len(packed_skus)
     /\ Len(packed_skus) >= MaxParcels) => Endless

\* box b qualifies as the box of the last parcel
Downgrades(b) ==
    /\ total_cubic_cm(b) < total_cubic_cm(Package.box)
    /\ Len(pack_boxes(b.dimensions, Parcels[Len(Parcels)])) = 1

\* C6: last_parcel is set exactly when the selected box has at least two
\* parcels and some candidate box of strictly smaller volume packs the items
\* of the final parcel into one parcel; it is then the first such box in
\* the candidate order, which is ascending in volume; the box and the
\* parcels are those of the selection.
LastParcelRule ==
    Returned =>
        /\ \A i, j \in 1..Len(useable_boxes) :
               i < j => total_cubic_cm(useable_boxes[i])
                            <= total_cubic_cm(useable_boxes[j])
        /\ (Package.last_parcel # None) <=>
               (Len(Parcels) >= 2
                /\ \E i \in 1..Len(useable_boxes) : Downgrades(useable_boxes[i]))
        /\ Package.last_parcel # None =>
               \E i \in 1..Len(useable_boxes) :
                   /\ useable_boxes[i] = Package.last_parcel[1]
                   /\ Downgrades(useable_boxes[i])
                   /\ \A j \in 1..(i - 1) : ~Downgrades(useable_boxes[j])
        /\ \E order \in Orders(DOMAIN packed_boxes) :
               LET selected == setup_box_dictionary(packed_boxes, order).package[1]
               IN  /\ Package.box = selected.box
                   /\ Parcels = selected.skus_per_box
        /\ Parcels = packed_boxes[Package.box]

LastParcelRuleWitness ==
    /\ Returned
    /\ Package.last_parcel # None
    /\ Len(useable_boxes) >= 2
    /\ Len(Parcels[Len(Parcels)]) >= 2

\* C7: when last_parcel is set, the final parcel weighs, with the tare of
\* the last_parcel box, at most max_weight.
LastParcelWeightCap ==
    (Returned /\ Package.last_parcel # None) =>
        Package.last_parcel[1].weight_g
            + weight_of_box_contents(Parcels[Len(Parcels)]) <= max_weight

\* C8: when the call returns, the sorted dimensions of every item of every
\* parcel are component-wise at most the interior dimensions of the box the
\* parcel is shipped in.
ItemsFitTheirBox ==
    Returned =>
        \A i \in 1..Len(Parcels) : \A k \in 1..Len(Parcels[i]) :
            /\ Parcels[i][k].dimensions[1] <= ParcelBox(i).dimensions[1]
            /\ Parcels[i][k].dimensions[2] <= ParcelBox(i).dimensions[2]
            /\ Parcels[i][k].dimensions[3] <= ParcelBox(i).dimensions[3]

ItemsFitTheirBoxWitness ==
    /\ Returned
    /\ Package.last_parcel # None
    /\ \E k \in 1..Len(InputSkus) : InputSkus[k].dimensions # <<1, 1, 1>>

\* the sorted dimensions of a line or box given by width, height, length
SortedDims(x) == Sort3(<<x.width, x.height, x.length>>)

\* the input boxes that hold every input item, whatever its orientation
BoxesThatFit ==
    {boxes_info[i].name : i \in
        {i \in 1..Len(boxes_info) :
            \A k \in 1..Len(items_info) : \A d \in 1..3 :
                SortedDims(items_info[k])[d] <= SortedDims(boxes_info[i])[d]}}

\* C9: of boxes with unique names, the boxes retained are exactly those whose
\* sorted dimensions hold the sorted dimensions of every input item, and
\* NoBoxesFit is raised exactly when none is retained, before anything is
\* packed.
FitFilter ==
    (pc # "start" /\ ~HasDuplicateNames(boxes_info)) =>
        /\ {useable_boxes[i].name : i \in 1..Len(useable_boxes)} = BoxesThatFit
        /\ (error = "NoBoxesFit") <=> (BoxesThatFit = {})
        /\ error = "NoBoxesFit" =>
               pc = "raised" /\ box_index = 0 /\ packed_boxes = EmptyDict

FitFilterWitness ==
    /\ pc = "pack"
    /\ box_index = 0
    /\ Len(useable_boxes) < Len(boxes_info)
    /\ Len(items_info) > 1

FitFilterRaisedWitness ==
    /\ error = "NoBoxesFit"
    /\ Len(items_info) > 1
\* the boxes of the dict that are no USPS boxes
PackageBoxes == {b \in DOMAIN packed_boxes : b.description \notin USPS_BOXES}

Selected == pc = "repack"

\* C5: the package the selector returns holds a box that is no USPS box,
\* has the fewest parcels among such boxes of the dict and the smallest
\* volume among those with as few; its parcels are the parcels of that box
\* and last_parcel is None; a dict with no USPS box always yields a package.
SelectorRule ==
    Selected =>
        /\ box_dictionary.package # None =>
               LET p == box_dictionary.package[1]
               IN  /\ p.box \in PackageBoxes
                   /\ \A b \in PackageBoxes :
                          Len(packed_boxes[p.box]) <= Len(packed_boxes[b])
                   /\ \A b \in PackageBoxes :
                          Len(packed_boxes[b]) = Len(packed_boxes[p.box]) =>
                              volume(p.box.dimensions) <= volume(b.dimensions)
                   /\ p.skus_per_box = packed_boxes[p.box]
                   /\ p.last_parcel = None
        /\ (PackageBoxes = DOMAIN packed_boxes) => box_dictionary.package # None

SelectorRuleWitness ==
    /\ Selected
    /\ box_dictionary.package # None
    /\ \E b \in PackageBoxes :
           /\ Len(packed_boxes[b]) = Len(box_dictionary.package[1].skus_per_box)
           /\ volume(b.dimensions)
                  > volume(box_dictionary.package[1].box.dimensions)
    /\ \E b \in PackageBoxes :
           Len(packed_boxes[b]) > Len(box_dictionary.package[1].skus_per_box)

\* C10: when pre_pack_boxes returns, the total_weight of every parcel, the
\* tare of the box and the weights of its items, is at most max_weight.
PrePackWeightCap ==
    Returned =>
        \A i \in 1..Len(packages) : packages[i].total_weight <= max_weight
\* the item and the box of a helper call, sorted
ItemDims == sorted_dims(item_info)
BoxDims == sorted_dims(box_info)

\* space_after_packing has returned
SpaceReturned == pc = "done" /\ result # None

\* the blocks returned, as triples <<width, height, length>>
BlocksReturned ==
    [k \in 1..Len(result[1].remaining_dimensional_blocks) |->
        <<result[1].remaining_dimensional_blocks[k].width,
          result[1].remaining_dimensional_blocks[k].height,
          result[1].remaining_dimensional_blocks[k].length>>]

\* C11: space_after_packing raises DoesNotFit exactly when some sorted
\* dimension of the item exceeds the same sorted dimension of the box;
\* otherwise it returns the blocks of best_fit of the sorted item and box,
\* and the sum of the volumes of the blocks returned.
SpaceAfterPackingRule ==
    pc # "space" =>
        /\ (error = "DoesNotFit") <=> (\E d \in 1..3 : ItemDims[d] > BoxDims[d])
        /\ (pc = "raised") <=> (error = "DoesNotFit")
        /\ pc = "raised" => result = None
        /\ pc = "done" =>
               /\ BlocksReturned = best_fit(ItemDims, BoxDims)
               /\ result[1].remaining_volume
                      = sum_of_volumes(BlocksReturned)

SpaceAfterPackingRuleWitness ==
    /\ SpaceReturned
    /\ Len(BlocksReturned) = 3
    /\ item_info # [width |-> ItemDims[1], height |-> ItemDims[2],
                    length |-> ItemDims[3]]
    /\ BlocksReturned[1][1] < BlocksReturned[1][3]

SpaceAfterPackingRaisedWitness ==
    /\ error = "DoesNotFit"
    /\ ItemDims[1] <= BoxDims[1]
    /\ ItemDims[3] <= BoxDims[3]

\* C12: the volume of the item and the volumes of the blocks best_fit
\* returns add up to the volume of the block the item was put in, so
\* remaining_volume is the volume of the box less the volume of the item.
VolumeConserved ==
    SpaceReturned =>
        /\ volume(ItemDims) + sum_of_volumes(best_fit(ItemDims, BoxDims))
               = volume(BoxDims)
        /\ result[1].remaining_volume = volume(BoxDims) - volume(ItemDims)

\* an item that leaves room on all three sides of a box it lies once in
VolumeConservedWitness ==
    /\ SpaceReturned
    /\ BoxDims[1] > 0
    /\ \A d \in 1..3 : 0 < ItemDims[d] /\ ItemDims[d] < BoxDims[d]
    /\ \A d \in 1..3 : BoxDims[d] < 2 * ItemDims[3]
    /\ Len(BlocksReturned) = 3

\* C17: every block best_fit returns for an item that fits is sorted
\* ascending and has no zero and no negative dimension.
BlocksSortedNonZero ==
    SpaceReturned =>
        \A k \in 1..Len(BlocksReturned) :
            /\ 0 < BlocksReturned[k][1]
            /\ BlocksReturned[k][1] <= BlocksReturned[k][2]
            /\ BlocksReturned[k][2] <= BlocksReturned[k][3]

\* a block of no volume was left out
BlocksSortedNonZeroWitness ==
    /\ SpaceReturned
    /\ ItemDims[1] > 0
    /\ ItemDims[1] = BoxDims[1]
    /\ ItemDims[3] < BoxDims[3]
    /\ Len(BlocksReturned) < 3
    /\ Len(BlocksReturned) > 0

\* the axes of the box that hold the longest side of the item twice
TwiceAxes == {i \in 1..3 : BoxDims[i] >= 2 * ItemDims[3]}

PositiveDims == ItemDims[1] > 0 /\ BoxDims[1] > 0

FirstTwiceAxis == CHOOSE i \in TwiceAxes : \A j \in TwiceAxes : i <= j

BreakAxes ==
    {i \in 0..2 : BoxDims[i + 1] >= 2 * ItemDims[3]
                  \/ BoxDims[i + 1] = ItemDims[3]}

\* the layer above the item when it is laid along axis i (a Python index)
UpperLayer(i) ==
    Sort3(<<BoxDims[i + 1] - ItemDims[3], BoxDims[Idx(i - 1)],
            BoxDims[Idx(i - 2)]>>)

\* the block is in the list of blocks
HasBlock(blocks, block) == \E k \in 1..Len(blocks) : blocks[k] = block

StackingAxisTwiceWitness ==
    /\ SpaceReturned
    /\ PositiveDims
    /\ BoxDims[1] >= 2 * ItemDims[3]
    /\ BoxDims[1] < BoxDims[2]
    /\ HasBlock(BlocksReturned, UpperLayer(0))
\* how_many_items_fit has returned
HowManyReturned == pc = "done" /\ result # None

\* C13: with max_packed given, total_packed is at most max_packed, and it
\* is the smaller of max_packed and the total_packed of the call without
\* max_packed (where that call returns: the item has a volume).
CapRule ==
    (HowManyReturned /\ max_packed # None) =>
        /\ result[1].total_packed <= max_packed[1]
        /\ ItemDims[1] > 0 =>
               result[1].total_packed
                   = Min2(max_packed[1], total_packed(ItemDims, BoxDims))

\* C14: on return, remaining_volume is the volume of the box less
\* total_packed times the volume of the item, and it is not negative.
RemainingVolumeRule ==
    HowManyReturned =>
        /\ result[1].remaining_volume
               = volume(BoxDims) - result[1].total_packed * volume(ItemDims)
        /\ result[1].remaining_volume >= 0

\* some calls placed nothing, the box was not filled
RemainingVolumeRuleWitness ==
    /\ HowManyReturned
    /\ max_packed = None
    /\ result[1].total_packed >= 3
    /\ result[1].remaining_volume > 0
    /\ ItemDims[1] < ItemDims[3]

\* an item of no volume, no max_packed that the count can still be equal
\* to, and a block of the work-list with a volume that holds the item: the
\* block it leaves holds it again
HowManyEndless ==
    /\ pc = "count"
    /\ (max_packed = None \/ max_packed[1] < Len(skus_packed[1]))
    /\ ItemDims[1] = 0
    /\ \E k \in 1..Len(remaining_dimensions) :
           /\ remaining_dimensions[k][1] > 0
           /\ does_it_fit(ItemDims, remaining_dimensions[k])

\* C15: every call ends and returns: the work-list never holds a block that
\* can only be answered by another block; and an item that does not fit the
\* box yields total_packed 0 and the volume of the box.
HowManyEnds ==
    /\ ~HowManyEndless
    /\ (HowManyReturned /\ ~does_it_fit(ItemDims, BoxDims)) =>
           /\ result[1].total_packed = 0
           /\ result[1].remaining_volume = volume(BoxDims)

\* a step that starts in such a state ends in one: the loop has no exit
HowManyEndlessIsClosed == [][HowManyEndless => HowManyEndless']_vars

\* the bound on the items packed stops no other run than these
OnlyHowManyEndlessIsCut ==
    (pc = "count" /\ Len(skus_packed[1]) >= PackedLimit) => HowManyEndless

\* the item that does not fit yields 0 and the volume of the box
NoFitYieldsNothing ==
    (HowManyReturned /\ ~does_it_fit(ItemDims, BoxDims)) =>
        /\ result[1].total_packed = 0
        /\ result[1].remaining_volume = volume(BoxDims)
\* pack_boxes has returned
PackReturned == pc = "done" /\ result # None

\* pack_boxes is in its loops
Packing == pc \in {"pack_while", "pack_for"}

\* a parcel was opened and nothing is in it yet
FreshParcel == skus_packed # <<>> /\ skus_packed[Len(skus_packed)] = <<>>

\* what is left to do: the skus to pack first, then the blocks to try, a
\* parcel just opened coming below any work-list
PackMeasure ==
    Len(skus_to_pack_copy) * (2 * Len(skus_to_pack) + 5)
        + (IF FreshParcel THEN 0 ELSE 1 + Len(remaining_dimensions))

\* C16: pack_boxes ends when every sku fits the box: every call of the
\* placer pops the head block and takes at most one sku off the list, no
\* step adds a sku to the list, every step that changes the list or the
\* blocks decreases what is left to do, and it returns with every sku
\* placed.
PackBoxesEnds ==
    /\ [][(Packing /\ Packing') =>
            /\ PackMeasure' <= PackMeasure
            /\ <<skus_to_pack_copy, remaining_dimensions, skus_packed>>'
                   # <<skus_to_pack_copy, remaining_dimensions, skus_packed>>
                   => PackMeasure' < PackMeasure
            /\ Len(skus_to_pack_copy') \in
                   {Len(skus_to_pack_copy), Len(skus_to_pack_copy) - 1}
            /\ (pc = "pack_for" /\ block_i' = block_i + 1) =>
                   /\ Len(remaining_dimensions') >= Len(remaining_dimensions) - 1
                   /\ \A k \in 2..Len(remaining_dimensions) :
                          remaining_dimensions'[k - 1] = remaining_dimensions[k]]_vars
    /\ [](PackReturned =>
            /\ skus_to_pack_copy = <<>>
            /\ SameItems(Flatten(result[1]), skus_to_pack))
    /\ [](Packing => PackMeasure >= 0)

PackBoxesEndsWitness ==
    /\ PackReturned
    /\ Len(result[1]) >= 2
    /\ \E k \in 1..Len(skus_to_pack) :
           skus_to_pack[k].dimensions # skus_to_pack[1].dimensions
    /\ Len(result[1][1]) >= 2

\* the skus lie longest dimension first
LongestFirst(skus) ==
    \A k \in 1..(Len(skus) - 1) :
        skus[k].dimensions[3] >= skus[k + 1].dimensions[3]

\* the skus of the list whose longest dimension is len, in order
OfLength(skus, len) ==
    LET IsOfLength(sku) == sku.dimensions[3] = len
    IN  SelectSeq(skus, IsOfLength)

\* the skus of equal longest dimension lie as they do in the input
TiesInInputOrder(skus, input) ==
    \A k \in 1..Len(input) :
        OfLength(skus, input[k].dimensions[3])
            = OfLength(input, input[k].dimensions[3])

\* the last-parcel repack calls pack_boxes: the package has two parcels or
\* more and some useable box is no USPS box and smaller than its box
RepackCallsPackBoxes ==
    /\ pc = "repack"
    /\ box_dictionary.package # None
    /\ Len(box_dictionary.package[1].skus_per_box) > 1
    /\ \E i \in 1..Len(useable_boxes) :
           /\ useable_boxes[i].description \notin USPS_BOXES
           /\ total_cubic_cm(useable_boxes[i])
                  < total_cubic_cm(box_dictionary.package[1].box)

\* the skus the last-parcel repack hands to pack_boxes
SmallestSkusToPack ==
    LET parcels == box_dictionary.package[1].skus_per_box
    IN  parcels[Len(parcels)]

\* C24: the skus enter every call of pack_boxes longest dimension first,
\* skus of equal longest dimension in input order: the skus packed into
\* each useable box, and the skus of the last parcel when it is packed
\* again into a smaller box.
CandidatesSorted ==
    /\ pc = "pack" =>
           /\ LongestFirst(skus_to_pack)
           /\ TiesInInputOrder(skus_to_pack, ExpandItems(items_info))
    /\ RepackCallsPackBoxes => LongestFirst(SmallestSkusToPack)

\* the last parcel handed to pack_boxes again lies shorter skus first
UnsortedRepack ==
    /\ RepackCallsPackBoxes
    /\ ~LongestFirst(SmallestSkusToPack)

\* the skus packed into each useable box are the input skus, longest first,
\* skus of equal longest dimension in input order
PerBoxCandidatesSorted ==
    pc = "pack" =>
        /\ LongestFirst(skus_to_pack)
        /\ TiesInInputOrder(skus_to_pack, ExpandItems(items_info))
        /\ SameItems(skus_to_pack, ExpandItems(items_info))

\* s is the beginning of t
IsPrefix(s, t) == Len(s) <= Len(t) /\ s = SubSeq(t, 1, Len(s))

\* the skus taken off the parcels of pack_boxes, parcel by parcel
RECURSIVE PoppedSkus(_, _, _)
PoppedSkus(geometric, parcels, i) ==
    IF i > Len(geometric) THEN <<>>
    ELSE SubSeq(geometric[i], Len(parcels[i]) + 1, Len(geometric[i]))
             \o PoppedSkus(geometric, parcels, i + 1)

\* the parcels of the box are what the redistribution can make of the
\* parcels of pack_boxes: each of those is there, in place, cut at its end
\* at most, and whole if it was not too heavy
TailBiased(box, parcels) ==
    LET geometric == pack_boxes(box.dimensions, skus_to_pack)
    IN  /\ Len(parcels) >= Len(geometric)
        /\ \A i \in 1..Len(geometric) :
               /\ IsPrefix(parcels[i], geometric[i])
               /\ weight_of_box_contents(geometric[i]) + box.weight_g
                      <= max_weight => parcels[i] = geometric[i]

\* C25: the redistribution takes skus off the end of the parcels of
\* pack_boxes only: each of them stays in its place as a prefix of what it
\* was, unchanged if its weight with the tare was within max_weight, and
\* the skus taken off are in the overflow parcels, which come after them.
RedistributionTailBiased ==
    /\ pc = "redistribute" =>
           /\ TailBiased(useable_boxes[box_index], packed_skus)
           /\ SameItems(Flatten(SubSeq(packed_skus,
                                       Len(pack_boxes(
                                           useable_boxes[box_index].dimensions,
                                           skus_to_pack)) + 1,
                                       Len(packed_skus)))
                            \o additional_box,
                        PoppedSkus(pack_boxes(
                                       useable_boxes[box_index].dimensions,
                                       skus_to_pack),
                                   packed_skus, 1))
    /\ \A box \in DOMAIN packed_boxes :
           /\ TailBiased(box, packed_boxes[box])
           /\ SameItems(Flatten(SubSeq(packed_boxes[box],
                                       Len(pack_boxes(box.dimensions,
                                                      skus_to_pack)) + 1,
                                       Len(packed_boxes[box]))),
                        PoppedSkus(pack_boxes(box.dimensions, skus_to_pack),
                                   packed_boxes[box], 1))

\* of the parcels of pack_boxes for the selected box, one lost its last sku
\* and another one, within max_weight, is whole
RedistributionTailBiasedWitness ==
    /\ Returned
    /\ LET geometric == pack_boxes(Package.box.dimensions, skus_to_pack)
       IN  /\ Len(Parcels) > Len(geometric)
           /\ \E i \in 1..Len(geometric) :
                  /\ Parcels[i] # <<>>
                  /\ Len(Parcels[i]) < Len(geometric[i])
           /\ \E i \in 1..Len(geometric) : Parcels[i] = geometric[i]

\* the same of the redistribution of pre_pack_boxes
PrePackTailBiased ==
    pc \in {"pre_redistribute", "pre_return", "done"} =>
        TailBiased(MakeBox(boxes_info[1]), packed_skus)

\* C29: no parcel of the returned packing is empty, and there are no more
\* parcels than skus: pack_boxes puts a sku in every parcel it opens and
\* the redistribution neither empties a parcel nor appends an empty one.
NoEmptyParcel ==
    Returned =>
        /\ \A i \in 1..Len(Parcels) : Parcels[i] # <<>>
        /\ Len(Parcels) <= Len(InputSkus)

\* pack_boxes itself puts a sku in every parcel it opens
NoEmptyGeometricParcel ==
    \A i \in 1..Len(useable_boxes) :
        LET geometric == pack_boxes(useable_boxes[i].dimensions, skus_to_pack)
        IN  /\ \A p \in 1..Len(geometric) : geometric[p] # <<>>
            /\ Len(geometric) <= Len(skus_to_pack)

\* the step is one call of the placer by pack_boxes
PlacerCall == pc = "pack_for" /\ block_i' = block_i + 1

\* the candidates that fit the head block, by position
FitsHead ==
    {k \in 1..Len(skus_to_pack_copy) :
         does_it_fit(skus_to_pack_copy[k].dimensions, remaining_dimensions[1])}

PlacerDropWitness ==
    /\ pc = "pack_for"
    /\ block_i < Len(remaining_dimensions)
    /\ skus_to_pack_copy # <<>>
    /\ FitsHead = {}

\* some sku of the list fits the block
FitBySome(skus, block) ==
    \E c \in 1..Len(skus) :
        \A d \in 1..3 : skus[c].dimensions[d] <= block[d]

\* the positions of the blocks that some sku of the list fits
UsefulBlocks(blocks, skus) ==
    {r \in 1..Len(blocks) : FitBySome(skus, blocks[r])}

\* C23: what a call of the placer appends to the work-list comes behind the
\* blocks that were there, in ascending order of volume, and it is exactly
\* the blocks best_fit leaves of the head block around the sku placed that
\* some candidate still to be placed after it fits; a call that places
\* nothing appends nothing.
EarlyPrune ==
    [][PlacerCall =>
          LET n     == Len(remaining_dimensions) - 1
              added == SubSeq(remaining_dimensions', n + 1,
                              Len(remaining_dimensions'))
              last  == skus_packed'[Len(skus_packed')]
          IN  /\ \A k \in 1..n :
                     remaining_dimensions'[k] = remaining_dimensions[k + 1]
              /\ \A k \in 1..Len(added) :
                     FitBySome(skus_to_pack_copy', added[k])
              /\ \A k \in 1..(Len(added) - 1) :
                     volume(added[k]) <= volume(added[k + 1])
              /\ skus_packed' = skus_packed => added = <<>>
              /\ skus_packed' # skus_packed =>
                     LET left == best_fit(last[Len(last)].dimensions,
                                          remaining_dimensions[1])
                     IN  /\ Len(added)
                                = Cardinality(UsefulBlocks(left,
                                                           skus_to_pack_copy'))
                         /\ \A r \in 1..Len(left) :
                                HasBlock(added, left[r]) <=>
                                    FitBySome(skus_to_pack_copy', left[r])]_vars

\* the first sku was placed in a new parcel: of the blocks left of the
\* box, the work-list holds those that a candidate fits and not the others
EarlyPruneWitness ==
    /\ pc = "pack_for"
    /\ block_i = 1
    /\ skus_to_pack_copy # <<>>
    /\ skus_packed # <<>>
    /\ Len(skus_packed[Len(skus_packed)]) = 1
    /\ LET left == best_fit(skus_packed[Len(skus_packed)][1].dimensions,
                            box_dimensions)
       IN  /\ \E r \in 1..Len(left) : ~FitBySome(skus_to_pack_copy, left[r])
           /\ remaining_dimensions # <<>>
           /\ Len(remaining_dimensions)
                  = Cardinality(UsefulBlocks(left, skus_to_pack_copy))
           /\ \A k \in 1..Len(remaining_dimensions) :
                  /\ HasBlock(left, remaining_dimensions[k])
                  /\ FitBySome(skus_to_pack_copy, remaining_dimensions[k])

\* the sku does not fit the box, dimension by dimension as given
Misfit(sku) == \E d \in 1..3 : sku.dimensions[d] > box_dimensions[d]

\* some sku of the call does not fit the box
SomeMisfit == \E k \in 1..Len(skus_to_pack) : Misfit(skus_to_pack[k])

\* only skus that do not fit the box are left, and no block is left but,
\* at most, the box of a parcel just opened
OnlyMisfitsLeft ==
    /\ Packing
    /\ skus_to_pack_copy # <<>>
    /\ \A k \in 1..Len(skus_to_pack_copy) : Misfit(skus_to_pack_copy[k])
    /\ remaining_dimensions \in {<<>>, <<box_dimensions>>}

\* the call is not followed any further
PackCut ==
    /\ pc = "pack_while"
    /\ skus_to_pack_copy # <<>>
    /\ remaining_dimensions = <<>>
    /\ Len(skus_packed) >= PackParcelLimit

\* what a call followed up to PackParcelLimit parcels has left to do: the
\* skus to place first, then the parcels to open, then the blocks to try,
\* then the way to the next call of the placer
MisfitMeasure ==
    Len(skus_to_pack_copy) * (4 * PackParcelLimit + 13)
        + (PackParcelLimit - Len(skus_packed)) * 4
        + 3 * Len(remaining_dimensions)
        + (IF pc = "pack_while" THEN 1 ELSE IF block_i = 0 THEN 0 ELSE 2)

\* C26: when some sku does not fit the box, pack_boxes never returns and
\* never raises.  The skus that do not fit are never placed.  Every step
\* of the loops brings the call nearer to the last parcel it is followed
\* to, so every run comes to it, and it comes to it with only skus that do
\* not fit left; from where only they are left, each pass opens another
\* parcel that stays empty and drops the box, the skus to pack and the
\* parcels filled staying as they are.
MisfitNeverReturns ==
    /\ [](SomeMisfit => (~PackReturned /\ error = ""))
    /\ [][(SomeMisfit /\ Packing) =>
             \A k \in 1..Len(skus_to_pack_copy) :
                 Misfit(skus_to_pack_copy[k]) =>
                     Count(skus_to_pack_copy', skus_to_pack_copy[k])
                         = Count(skus_to_pack_copy, skus_to_pack_copy[k])]_vars
    /\ [][OnlyMisfitsLeft =>
             /\ OnlyMisfitsLeft'
             /\ skus_to_pack_copy' = skus_to_pack_copy
             /\ Len(skus_packed') >= Len(skus_packed)
             /\ \A p \in 1..Len(skus_packed) :
                    skus_packed'[p] = skus_packed[p]
             /\ \A p \in (Len(skus_packed) + 1)..Len(skus_packed') :
                    skus_packed'[p] = <<>>
             /\ (pc = "pack_while" /\ pc' = "pack_for") =>
                    (remaining_dimensions = <<>>
                     /\ Len(skus_packed') = Len(skus_packed) + 1)]_vars
    /\ [](PackCut => (SomeMisfit /\ OnlyMisfitsLeft))
    /\ [][(SomeMisfit /\ Packing /\ Packing') =>
             MisfitMeasure' < MisfitMeasure]_vars
    /\ []((SomeMisfit /\ Packing) => MisfitMeasure >= 0)

\* a sku whose dimensions are not sorted is left after one that fits was
\* placed, and empty parcels were opened for it
MisfitNeverReturnsWitness ==
    /\ PackCut
    /\ skus_packed[1] # <<>>
    /\ skus_packed[Len(skus_packed)] = <<>>
    /\ \E k \in 1..Len(skus_to_pack_copy) :
           /\ Sort3(skus_to_pack_copy[k].dimensions)
                  # skus_to_pack_copy[k].dimensions
           /\ \A d \in 1..3 :
                  Sort3(skus_to_pack_copy[k].dimensions)[d] <= box_dimensions[d]

\* the box packer that calls the placer once in every pass of its loop:
\* while candidates remain, a parcel is opened on an empty work-list, with
\* the box as the sole block, and the placer is called once
RECURSIVE OncePerPass(_, _, _, _)
OncePerPass(box, work_list, candidates, parcels) ==
    IF candidates = <<>> THEN parcels
    ELSE LET open == work_list = <<>>
             r == insert_skus_into_dimensions(
                      IF open THEN <<box>> ELSE work_list,
                      candidates,
                      IF open THEN Append(parcels, <<>>) ELSE parcels)
         IN  OncePerPass(box, r.remaining_dimensions, r.skus_to_pack,
                         r.skus_packed)

\* C27: with every sku fitting the box, pack_boxes, which calls the placer
\* from a for loop over the list the placer pops and appends to, returns
\* the parcels of the packer that calls the placer once in every pass of
\* its loop; it opens a parcel only when the work-list is empty, putting
\* the box there as the sole block, and it never calls the placer on an
\* empty work-list.
ForLoopRefinesOncePerPass ==
    /\ [](PackReturned =>
             result[1] = OncePerPass(box_dimensions, <<>>, skus_to_pack, <<>>))
    /\ [](Packing =>
             OncePerPass(box_dimensions, remaining_dimensions,
                         skus_to_pack_copy, skus_packed)
                 = OncePerPass(box_dimensions, <<>>, skus_to_pack, <<>>))
    /\ [][(Packing /\ Len(skus_packed') # Len(skus_packed)) =>
             /\ remaining_dimensions = <<>>
             /\ skus_packed' = Append(skus_packed, <<>>)
             /\ remaining_dimensions' = <<box_dimensions>>]_vars
    /\ [][PlacerCall => remaining_dimensions # <<>>]_vars

\* the for loop has called the placer twice in one pass of the while loop
\* and has left a block for the next pass
ForLoopRefinesOncePerPassWitness ==
    /\ pc = "pack_while"
    /\ block_i >= 2
    /\ remaining_dimensions # <<>>
    /\ skus_to_pack_copy # <<>>

\* the volume of the skus of a parcel
RECURSIVE volume_of_skus(_)
volume_of_skus(parcel) ==
    IF parcel = <<>> THEN 0
    ELSE volume(Head(parcel).dimensions) + volume_of_skus(Tail(parcel))

\* C28: while pack_boxes fills a parcel, the volumes of the skus placed in
\* it and of the blocks of the work-list add up to the volume of the box
\* at most; so the skus of any parcel, while it packs and when it returns,
\* take no more than the volume of the box.
VolumeBound ==
    /\ (Packing /\ skus_packed # <<>>) =>
           volume_of_skus(skus_packed[Len(skus_packed)])
               + sum_of_volumes(remaining_dimensions)
               <= volume(box_dimensions)
    /\ Packing =>
           \A p \in 1..Len(skus_packed) :
               volume_of_skus(skus_packed[p]) <= volume(box_dimensions)
    /\ PackReturned =>
           \A p \in 1..Len(result[1]) :
               volume_of_skus(result[1][p]) <= volume(box_dimensions)

\* two skus are in the parcel and with the blocks of the work-list they
\* take the whole box
VolumeBoundWitness ==
    /\ pc = "pack_for"
    /\ Len(skus_packed[Len(skus_packed)]) >= 2
    /\ Len(remaining_dimensions) >= 2
    /\ volume_of_skus(skus_packed[Len(skus_packed)])
           + sum_of_volumes(remaining_dimensions) = volume(box_dimensions)

\* a block that no sku fits was left out: the box is not used up
VolumeBoundPrunedWitness ==
    /\ pc = "pack_for"
    /\ skus_to_pack_copy # <<>>
    /\ remaining_dimensions # <<>>
    /\ volume_of_skus(skus_packed[Len(skus_packed)])
           + sum_of_volumes(remaining_dimensions) < volume(box_dimensions)

\* the skus are identical cubes and the box holds whole cubes on every side
CubesInBox ==
    /\ skus_to_pack # <<>>
    /\ box_dimensions # <<>>
    /\ LET d == skus_to_pack[1].dimensions[1]
       IN  /\ \A k \in 1..Len(skus_to_pack) :
                  skus_to_pack[k].dimensions = <<d, d, d>>
           /\ \A i \in 1..3 : box_dimensions[i] % d = 0

\* how many cubes the box holds
CubeCapacity ==
    volume(box_dimensions) \div volume(skus_to_pack[1].dimensions)

\* C20: identical cubes in a box of whole cubes along every side fill every
\* parcel but the last with as many cubes as the box holds, in
\* ceil(n / capacity) parcels.
CubesPackedPerfectly ==
    (PackReturned /\ CubesInBox) =>
        LET n == Len(skus_to_pack)
            parcels == result[1]
        IN  /\ Len(parcels) = (n + CubeCapacity - 1) \div CubeCapacity
            /\ \A i \in 1..(Len(parcels) - 1) :
                   Len(parcels[i]) = CubeCapacity
            /\ Len(parcels[Len(parcels)])
                   = n - CubeCapacity * (Len(parcels) - 1)

CubesPackedPerfectlyWitness ==
    /\ PackReturned
    /\ CubesInBox
    /\ CubeCapacity = 8
    /\ Len(result[1]) = 2
    /\ box_dimensions[1] < box_dimensions[3] \/ Len(skus_to_pack) > 8
\* the USPS boxes of the dict
FlatRateBoxes == DOMAIN packed_boxes \ PackageBoxes

\* the box needs no more parcels than any box of the set
FewestParcels(box, boxes) ==
    \A b \in boxes : Len(packed_boxes[box]) <= Len(packed_boxes[b])

\* C19: of a dict that is not empty, 'package' is returned exactly when
\* there is a box that is no USPS box and the best of them needs no more
\* parcels than the best USPS box, 'flat_rate' exactly when there is a USPS
\* box and the best of them needs no more parcels than the best other box;
\* each is a box of fewest parcels of its kind with the parcels of that box,
\* and one of the two is returned.
PackageAndFlatRate ==
    Selected =>
        /\ box_dictionary.package # None <=>
               \E p \in PackageBoxes :
                   FewestParcels(p, PackageBoxes) /\ FewestParcels(p, FlatRateBoxes)
        /\ box_dictionary.flat_rate # None <=>
               \E f \in FlatRateBoxes :
                   FewestParcels(f, FlatRateBoxes) /\ FewestParcels(f, PackageBoxes)
        /\ box_dictionary.package # None =>
               /\ box_dictionary.package[1].box \in PackageBoxes
               /\ FewestParcels(box_dictionary.package[1].box, PackageBoxes)
        /\ box_dictionary.flat_rate # None =>
               /\ box_dictionary.flat_rate[1].box \in FlatRateBoxes
               /\ FewestParcels(box_dictionary.flat_rate[1].box, FlatRateBoxes)
               /\ box_dictionary.flat_rate[1].skus_per_box
                      = packed_boxes[box_dictionary.flat_rate[1].box]
               /\ box_dictionary.flat_rate[1].last_parcel = None
        /\ box_dictionary.package # None \/ box_dictionary.flat_rate # None

\* both kinds in the dict, as many parcels for the best of each
PackageAndFlatRateWitness ==
    /\ Selected
    /\ box_dictionary.package # None
    /\ box_dictionary.flat_rate # None
    /\ Cardinality(FlatRateBoxes) = 2
    /\ \E f \in FlatRateBoxes : ~FewestParcels(f, FlatRateBoxes)

\* only the kind that needs fewer parcels is returned
PackageAndFlatRateOneWitness ==
    /\ Selected
    /\ PackageBoxes # {}
    /\ box_dictionary.package = None

\* the two boxes are of the same kind: both USPS boxes or both not
SameKind(b1, b2) ==
    (b1.description \in USPS_BOXES) <=> (b2.description \in USPS_BOXES)

\* no two boxes of the same kind have as many parcels and the same volume
NoDoubleTie ==
    \A b1, b2 \in DOMAIN packed_boxes :
        (b1 # b2 /\ SameKind(b1, b2)
         /\ Len(packed_boxes[b1]) = Len(packed_boxes[b2])) =>
            total_cubic_cm(b1) # total_cubic_cm(b2)

====
